---------------------------- MODULE Spec2Model ----------------------------
(***************************************************************************)
(* A model of gtkpdf-reader (src/main.c): the viewer's global state, its   *)
(* GTK handlers (open, prev/next, zoom, bookmark, drag selection), the     *)
(* sidecar bookmark file, the screen <-> document coordinate mapping and   *)
(* the pixel format conversion.                                            *)
(*                                                                         *)
(* C float / double values are fixed-point integers counting 1/Scale, and  *)
(* every float operation rounds to the nearest representable value.        *)
(* Files are sequences of characters; fprintf and fscanf are modelled by   *)
(* what they write and read.                                               *)
(***************************************************************************)
EXTENDS Integers, Sequences, FiniteSets, TLC

(* ------------------------------ bounds -------------------------------- *)
\* pages of the largest document of the catalogue
MaxPages == 3
\* width and height of every page, in document units
PageW == 2
PageH == 2
\* width and height of the scrolled window's viewport, in pixels
ViewW == 3
ViewH == 3

(* ------------------------- float arithmetic --------------------------- *)
\* representable values are the multiples of 1/Scale
Scale == 100

Min(a, b) == IF a <= b THEN a ELSE b
Max(a, b) == IF a >= b THEN a ELSE b

\* a / b rounded to the nearest integer (a >= 0, b > 0)
RoundDiv(a, b) == (2 * a + b) \div (2 * b)
\* ceil(a / b) (a >= 0, b > 0)
CeilDiv(a, b) == (a + b - 1) \div b

\* an integer as a float
F(n) == n * Scale
\* float product and quotient, rounded
FMul(a, b) == RoundDiv(a * b, Scale)
FDiv(a, b) == RoundDiv(a * Scale, b)

\* the literals 1.2f, 5.0f, 0.1f, 1.0f
ZoomStep == (12 * Scale) \div 10
ZoomMax == 5 * Scale
ZoomMin == Scale \div 10
ZoomOne == Scale

(* ------------------------- the file system ---------------------------- *)
NULL == "NULL"

\* g_strdup_printf("%s.bookmark", pdf): sidecars are keyed by the pdf's path
bookmark_path(pdf) == IF pdf = NULL THEN NULL ELSE pdf \o ".bookmark"

Digits == <<"0", "1", "2", "3", "4", "5", "6", "7", "8", "9">>
DigitChar(d) == Digits[d + 1]
IsDigit(c) == \E i \in 1..10 : Digits[i] = c
DigitVal(c) == (CHOOSE i \in 1..10 : Digits[i] = c) - 1
IsSpace(c) == c \in {" ", "\n", "\t"}

RECURSIVE FormatNat(_)
FormatNat(n) ==
    IF n < 10 THEN <<DigitChar(n)>>
    ELSE FormatNat(n \div 10) \o <<DigitChar(n % 10)>>

\* printf's %d
FormatInt(n) == IF n < 0 THEN <<"-">> \o FormatNat(-n) ELSE FormatNat(n)

RECURSIVE SkipSpace(_)
SkipSpace(s) ==
    IF s # <<>> /\ IsSpace(Head(s)) THEN SkipSpace(Tail(s)) ELSE s

\* int is 32 bits wide: its range, and the half words the digits are
\* accumulated in
IntMax == 2147483647
IntMin == -IntMax - 1
HalfWord == 65536

\* the digits read so far as an unsigned 32-bit magnitude hi * 2^16 + lo;
\* big once the magnitude has passed 2^32 - 1
RECURSIVE ScanDigits(_, _)
ScanDigits(s, acc) ==
    IF s # <<>> /\ IsDigit(Head(s))
    THEN LET lo == 10 * acc.lo + DigitVal(Head(s))
             hi == 10 * acc.hi + lo \div HalfWord
         IN ScanDigits(Tail(s), [hi |-> hi % HalfWord, lo |-> lo % HalfWord,
                                 big |-> acc.big \/ hi >= HalfWord])
    ELSE acc

\* the int whose two's complement bits are hi * 2^16 + lo
AsInt(hi, lo) ==
    IF hi >= HalfWord \div 2 THEN (hi - HalfWord) * HalfWord + lo
    ELSE hi * HalfWord + lo

\* the two's complement negation of hi * 2^16 + lo, as an int
AsNegInt(hi, lo) ==
    IF lo = 0 THEN AsInt((HalfWord - hi) % HalfWord, 0)
    ELSE AsInt(HalfWord - 1 - hi, HalfWord - lo)

\* what the C library stores when the number read does not fit an int (the
\* behaviour is undefined): its low 32 bits, or the nearest int
Conversions == {"truncate", "saturate"}

\* fscanf(f, "%d", &p): white space, an optional sign, then at least one
\* digit; n is fscanf's result (1 when p was assigned)
ScanInt(s, conv) ==
    LET t == SkipSpace(s)
        neg == t # <<>> /\ Head(t) = "-"
        u == IF t # <<>> /\ Head(t) \in {"-", "+"} THEN Tail(t) ELSE t
        m == ScanDigits(u, [hi |-> 0, lo |-> 0, big |-> FALSE])
        fits == /\ ~m.big
                /\ \/ m.hi < HalfWord \div 2
                   \/ neg /\ m.hi = HalfWord \div 2 /\ m.lo = 0
    IN IF u # <<>> /\ IsDigit(Head(u))
       THEN [n |-> 1,
             p |-> IF fits \/ conv = "truncate"
                   THEN (IF neg THEN AsNegInt(m.hi, m.lo)
                         ELSE AsInt(m.hi, m.lo))
                   ELSE (IF neg THEN IntMin ELSE IntMax)]
       ELSE [n |-> 0, p |-> 0]

NoFile == [exists |-> FALSE, data |-> <<>>]
File(s) == [exists |-> TRUE, data |-> s]


(* --------------------- the documents on disk -------------------------- *)
\* the paths the file chooser (or argv[1]) can hand to open_pdf
Paths == {"a.pdf", "b.pdf", "e.pdf", "x.pdf", "y.pdf"}
SidecarPaths == {bookmark_path(p) : p \in Paths}

\* fz_open_document throws for a path that holds no document
OpenThrows(path) == path = "x.pdf"
\* fz_count_pages throws for a document whose page tree is broken
CountThrows(path) == path = "y.pdf"
\* fz_count_pages: the library's answer, which is 0 for a document
\* without pages
PageCount(path) ==
    CASE path = "a.pdf" -> MaxPages
      [] path = "b.pdf" -> 1
      [] OTHER -> 0

\* fopen(path, "w") fails for a sidecar in a read-only directory
SidecarWritable(path) == path # bookmark_path("b.pdf")

\* fz_load_page throws for a page number the document does not have
LoadPageThrows(d, n) == ~(0 <= n /\ n < PageCount(d))

(* ----------------------------- state ---------------------------------- *)
VARIABLES
    doc,                \* the open fz_document (its path), or NULL
    current_path,
    page_count,
    current_page,
    zoom_factor,
    bookmark_page,
    page_surface,       \* <<>> (NULL) or <<doc, page, zoom>>: what was rendered
    page_w, page_h,
    selecting,
    initial_drag_x, initial_drag_y,
    selection_start_pt, selection_end_pt,
    selection_rect,
    page_label, bookmark_btn,
    vadj, hadj,         \* the scrolled window's adjustments
    files,              \* sidecar path -> file
    clipboard,          \* <<>> (never set) or <<text>>
    gesture,            \* the GtkGestureDrag: active, and its offset
    op,                 \* the handler that ran last
    call, ret           \* a function applied on its own: arguments, result

nav_vars == <<doc, current_path, page_count, current_page, zoom_factor,
              bookmark_page, page_surface, page_w, page_h>>
sel_vars == <<selecting, initial_drag_x, initial_drag_y, selection_start_pt,
              selection_end_pt, selection_rect>>
ui_vars == <<page_label, bookmark_btn, vadj, hadj>>
env_vars == <<files, clipboard, gesture>>
gui_vars == <<nav_vars, sel_vars, ui_vars, env_vars, op>>
pure_vars == <<call, ret>>
vars == <<gui_vars, pure_vars>>

Point(x, y) == [x |-> x, y |-> y]
Rect(x0, y0, x1, y1) == [x0 |-> x0, y0 |-> y0, x1 |-> x1, y1 |-> y1]
EmptyRect == Rect(0, 0, 0, 0)
NoSurface == <<>>

(* ----------------------------- helpers -------------------------------- *)
\* load_bookmark forgetting that the sidecar is 1-based
load_bookmark_zero_based(cp, conv) ==
    LET path == bookmark_path(cp) IN
    IF path = NULL THEN -1
    ELSE IF ~files[path].exists THEN -1
    ELSE LET r == ScanInt(files[path].data, conv) IN
         IF r.n = 1 THEN r.p ELSE -1

\* load_bookmark: the value it leaves in bookmark_page; p - 1 wraps when p
\* is the least int
load_bookmark(cp, conv) ==
    LET path == bookmark_path(cp) IN
    IF path = NULL THEN -1
    ELSE IF ~files[path].exists THEN -1
    ELSE LET r == ScanInt(files[path].data, conv) IN
         IF r.n = 1 THEN (IF r.p = IntMin THEN IntMax ELSE r.p - 1) ELSE -1

\* what fprintf(f, "%d\n", bookmark_page + 1) writes
BookmarkLine(bp) == FormatInt(bp + 1) \o <<"\n">>

\* save_bookmark opening the sidecar with "a" instead of "w"
save_bookmark_append(cp, bp) ==
    LET path == bookmark_path(cp) IN
    IF path = NULL THEN files
    ELSE IF ~SidecarWritable(path) THEN files
    ELSE [files EXCEPT ![path] =
             File(files[path].data \o
                  (IF bp >= 0 THEN BookmarkLine(bp) ELSE <<>>))]

\* save_bookmark: the file system it leaves
save_bookmark(cp, bp) ==
    LET path == bookmark_path(cp) IN
    IF path = NULL THEN files
    ELSE IF ~SidecarWritable(path) THEN files
    ELSE [files EXCEPT ![path] =
             File(IF bp >= 0 THEN BookmarkLine(bp) ELSE <<>>)]

\* render_current_page returning before free_page_surface when there is no
\* document
render_current_page_early(d, cp, z, w, h) ==
    IF d = NULL THEN [surface |-> page_surface, w |-> w, h |-> h]
    ELSE IF LoadPageThrows(d, cp)
    THEN [surface |-> NoSurface, w |-> w, h |-> h]
    ELSE [surface |-> <<d, cp, z>>,
          w |-> CeilDiv(PageW * z, Scale),
          h |-> CeilDiv(PageH * z, Scale)]

\* render_current_page: the surface and the page size it leaves
render_current_page(d, cp, z, w, h) ==
    IF d = NULL \/ LoadPageThrows(d, cp)
    THEN [surface |-> NoSurface, w |-> w, h |-> h]
    ELSE [surface |-> <<d, cp, z>>,
          w |-> CeilDiv(PageW * z, Scale),
          h |-> CeilDiv(PageH * z, Scale)]

NoDataLabel ==
    [text |-> "NO DATA LOADED", page |-> 0, count |-> 0, zoom |-> 0,
     saved |-> FALSE]

\* update_ui: the status label and the bookmark button's label
StatusLabel(d, cp, pc, z, bp) ==
    IF d # NULL
    THEN [text |-> "PAGE", page |-> cp + 1, count |-> pc,
          zoom |-> RoundDiv(z * 100, Scale), saved |-> bp >= 0]
    ELSE NoDataLabel
ButtonLabel(d, cp, bp) ==
    IF d # NULL /\ bp = cp THEN "UN-MARK (B)" ELSE "MARK (B)"

update_ui(d, cp, pc, z, bp) ==
    /\ page_label' = StatusLabel(d, cp, pc, z, bp)
    /\ bookmark_btn' = ButtonLabel(d, cp, bp)

\* reset_scroll_view setting the vertical adjustment only
reset_scroll_view_vertical == vadj' = 0 /\ hadj' = hadj

reset_scroll_view == vadj' = 0 /\ hadj' = 0

Render(r) == page_surface' = r.surface /\ page_w' = r.w /\ page_h' = r.h

(* ------------------------------ Init ---------------------------------- *)
\* sidecars found on disk at start
InitialSidecars == {NoFile, File(<<"2", "\n">>), File(<<"9">>)}

NoGesture == [active |-> FALSE, x |-> 0, y |-> 0]
NoCall == [fn |-> "none"]
NoRet == [fn |-> "none"]

\* the viewer after activate, no file named on the command line, with f
\* the sidecar of a.pdf on disk
Started(f) ==
    /\ gesture = NoGesture
    /\ doc = NULL /\ current_path = NULL
    /\ page_count = 0 /\ current_page = 0
    /\ zoom_factor = ZoomOne /\ bookmark_page = -1
    /\ page_surface = NoSurface /\ page_w = 0 /\ page_h = 0
    /\ selecting = 0 /\ initial_drag_x = 0 /\ initial_drag_y = 0
    /\ selection_start_pt = Point(0, 0) /\ selection_end_pt = Point(0, 0)
    /\ selection_rect = EmptyRect
    /\ page_label = NoDataLabel /\ bookmark_btn = "MARK (B)"
    /\ vadj = 0 /\ hadj = 0
    /\ files = [p \in SidecarPaths |->
                   IF p = bookmark_path("a.pdf") THEN f ELSE NoFile]
    /\ clipboard = <<>>
    /\ op = "activate"

Init ==
    /\ call = NoCall /\ ret = NoRet
    /\ \E f \in InitialSidecars : Started(f)

(* ----------------------------- actions -------------------------------- *)
\* open_pdf(path)
open_pdf(path) ==
    \E conv \in Conversions :
    LET ok == ~OpenThrows(path) /\ ~CountThrows(path)
        loaded == load_bookmark(path, conv)
        inrange == loaded >= 0 /\ loaded < PageCount(path)
    IN
    /\ current_path' = path
    /\ zoom_factor' = ZoomOne
    /\ selection_rect' = EmptyRect
    /\ IF ok
       THEN /\ doc' = path
            /\ page_count' = PageCount(path)
            /\ bookmark_page' = IF inrange THEN loaded ELSE -1
            /\ current_page' = IF inrange THEN loaded ELSE 0
       ELSE /\ doc' = NULL
            /\ page_count' = 0
            /\ UNCHANGED <<current_page, bookmark_page>>
    /\ Render(render_current_page(doc', current_page', ZoomOne, 0, 0))
    /\ reset_scroll_view
    /\ update_ui(doc', current_page', page_count', ZoomOne, bookmark_page')
    /\ op' = "open_pdf"
    /\ UNCHANGED pure_vars
    /\ UNCHANGED <<selecting, initial_drag_x, initial_drag_y,
                   selection_start_pt, selection_end_pt, env_vars>>

\* go_to_page(delta)
go_to_page(delta) ==
    LET np0 == current_page + delta
        np1 == IF np0 < 0 THEN 0 ELSE np0
        np == IF np1 >= page_count THEN page_count - 1 ELSE np1
    IN
    IF doc = NULL \/ np = current_page
    THEN UNCHANGED <<nav_vars, sel_vars, ui_vars, env_vars>>
    ELSE /\ current_page' = np
         /\ selection_rect' = EmptyRect
         /\ Render(render_current_page(doc, np, zoom_factor, page_w, page_h))
         /\ reset_scroll_view
         /\ update_ui(doc, np, page_count, zoom_factor, bookmark_page)
         /\ UNCHANGED <<doc, current_path, page_count, zoom_factor,
                        bookmark_page, selecting, initial_drag_x,
                        initial_drag_y, selection_start_pt, selection_end_pt,
                        env_vars>>

on_prev == go_to_page(-1) /\ op' = "on_prev" /\ UNCHANGED pure_vars
on_next == go_to_page(1) /\ op' = "on_next" /\ UNCHANGED pure_vars

\* on_zoom_in without its upper clamp
ZoomIn_unclamped(z) == FMul(z, ZoomStep)

\* the zoom factor on_zoom_in / on_zoom_out leave
ZoomIn(z) == LET n == FMul(z, ZoomStep) IN IF n > ZoomMax THEN ZoomMax ELSE n
ZoomOut(z) == LET n == FDiv(z, ZoomStep) IN IF n < ZoomMin THEN ZoomMin ELSE n

Rezoom(z) ==
    IF doc = NULL
    THEN UNCHANGED <<nav_vars, sel_vars, ui_vars, env_vars>>
    ELSE /\ zoom_factor' = z
         /\ selection_rect' = EmptyRect
         /\ Render(render_current_page(doc, current_page, z, page_w, page_h))
         /\ update_ui(doc, current_page, page_count, z, bookmark_page)
         /\ UNCHANGED <<doc, current_path, page_count, current_page,
                        bookmark_page, selecting, initial_drag_x,
                        initial_drag_y, selection_start_pt, selection_end_pt,
                        vadj, hadj, env_vars>>

\* on_zoom_in without its check for a document
on_zoom_in_unguarded ==
    /\ zoom_factor' = ZoomIn(zoom_factor)
    /\ selection_rect' = EmptyRect
    /\ Render(render_current_page(doc, current_page, zoom_factor',
                                  page_w, page_h))
    /\ update_ui(doc, current_page, page_count, zoom_factor', bookmark_page)
    /\ op' = "on_zoom_in"
    /\ UNCHANGED <<doc, current_path, page_count, current_page,
                   bookmark_page, selecting, initial_drag_x, initial_drag_y,
                   selection_start_pt, selection_end_pt, vadj, hadj,
                   env_vars, pure_vars>>

on_zoom_in ==
    Rezoom(ZoomIn(zoom_factor)) /\ op' = "on_zoom_in" /\ UNCHANGED pure_vars
on_zoom_out ==
    Rezoom(ZoomOut(zoom_factor)) /\ op' = "on_zoom_out" /\ UNCHANGED pure_vars

\* on_toggle_bookmark that only ever sets the bookmark
Toggled_set_only(bp, cp) == cp

\* the bookmark on_toggle_bookmark leaves
Toggled(bp, cp) == IF bp = cp THEN -1 ELSE cp

on_toggle_bookmark ==
    /\ op' = "on_toggle_bookmark"
    /\ UNCHANGED pure_vars
    /\ IF doc = NULL
       THEN UNCHANGED <<nav_vars, sel_vars, ui_vars, env_vars>>
       ELSE /\ bookmark_page' = Toggled(bookmark_page, current_page)
            /\ files' = save_bookmark(current_path, bookmark_page')
            /\ update_ui(doc, current_page, page_count, zoom_factor,
                         bookmark_page')
            /\ UNCHANGED <<doc, current_path, page_count, current_page,
                           zoom_factor, page_surface, page_w, page_h,
                           sel_vars, vadj, hadj, clipboard, gesture>>

on_go_to_bookmark ==
    /\ op' = "on_go_to_bookmark"
    /\ UNCHANGED pure_vars
    /\ IF doc = NULL \/ bookmark_page < 0
       THEN UNCHANGED <<nav_vars, sel_vars, ui_vars, env_vars>>
       ELSE /\ current_page' = bookmark_page
            /\ selection_rect' = EmptyRect
            /\ Render(render_current_page(doc, bookmark_page, zoom_factor,
                                          page_w, page_h))
            /\ reset_scroll_view
            /\ update_ui(doc, bookmark_page, page_count, zoom_factor,
                         bookmark_page)
            /\ UNCHANGED <<doc, current_path, page_count, zoom_factor,
                           bookmark_page, selecting, initial_drag_x,
                           initial_drag_y, selection_start_pt,
                           selection_end_pt, env_vars>>

(* ------------------------ selection & clipboard ----------------------- *)
\* the structured text fz_new_stext_page_from_page returns: blocks in
\* document order, a text block holding lines with a bounding box
TextLine(x0, y0, x1, y1, chars) ==
    [bbox |-> Rect(x0, y0, x1, y1), chars |-> chars]
TextBlock(lines) == [type |-> "text", lines |-> lines]
ImageBlock == [type |-> "image", lines |-> <<>>]

PageText(d, n) ==
    IF d = "a.pdf" /\ n = 0
    THEN <<TextBlock(<<TextLine(0, 0, F(1), Scale \div 2, <<"a", "b">>)>>),
           ImageBlock,
           TextBlock(<<TextLine(Scale \div 2, Scale \div 2, F(2), F(2),
                                <<"c">>),
                       TextLine(F(1), F(1), F(2), F(2), <<"d", "e">>)>>)>>
    ELSE IF d = "a.pdf" /\ n = 1
    THEN <<TextBlock(<<TextLine(0, 0, F(2), F(2), <<"f">>)>>)>>
    ELSE <<ImageBlock>>

\* gtk_widget_get_width / _height of the drawing area: the viewport, or the
\* content size update_ui set when that is larger
DrawingW == Max(ViewW, page_w)
DrawingH == Max(ViewH, page_h)

\* the centring offset screen_to_pdf and draw_cb compute
CentreOffset(widget, page) ==
    IF widget > page THEN (F(widget) - F(page)) \div 2 ELSE 0

\* screen_to_pdf without the clamp to the page
screen_to_pdf_unclamped(screen_x, screen_y) ==
    IF doc = NULL THEN Point(0, 0)
    ELSE LET page_x == screen_x - CentreOffset(DrawingW, page_w)
             page_y == screen_y - CentreOffset(DrawingH, page_h)
         IN IF zoom_factor > 0
            THEN Point(FDiv(Max(0, page_x), zoom_factor),
                       FDiv(Max(0, page_y), zoom_factor))
            ELSE Point(0, 0)

screen_to_pdf(screen_x, screen_y) ==
    IF doc = NULL THEN Point(0, 0)
    ELSE LET ox == CentreOffset(DrawingW, page_w)
             oy == CentreOffset(DrawingH, page_h)
             page_x == Max(0, Min(F(page_w), screen_x - ox))
             page_y == Max(0, Min(F(page_h), screen_y - oy))
         IN IF zoom_factor > 0
            THEN Point(FDiv(page_x, zoom_factor), FDiv(page_y, zoom_factor))
            ELSE Point(0, 0)

\* rect_intersects_selection taking rectangles that only touch as overlapping
rect_intersects_selection_touching(r1, r2) ==
    IF r1.x1 < r2.x0 \/ r1.x0 > r2.x1 THEN 0
    ELSE IF r1.y1 < r2.y0 \/ r1.y0 > r2.y1 THEN 0
    ELSE 1

rect_intersects_selection(r1, r2) ==
    IF r1.x1 <= r2.x0 \/ r1.x0 >= r2.x1 THEN 0
    ELSE IF r1.y1 <= r2.y0 \/ r1.y0 >= r2.y1 THEN 0
    ELSE 1

\* the text_buffer the loops over a block's lines and over the blocks fill
RECURSIVE AppendLines(_, _, _)
AppendLines(lines, sel, buf) ==
    IF lines = <<>> THEN buf
    ELSE LET line == Head(lines) IN
         AppendLines(Tail(lines), sel,
                     IF rect_intersects_selection(line.bbox, sel) = 0
                     THEN buf
                     ELSE buf \o line.chars \o <<"\n">>)

RECURSIVE AppendBlocks(_, _, _)
AppendBlocks(blocks, sel, buf) ==
    IF blocks = <<>> THEN buf
    ELSE LET block == Head(blocks) IN
         AppendBlocks(Tail(blocks), sel,
                      IF block.type # "text" THEN buf
                      ELSE AppendLines(block.lines, sel, buf))

\* final_text with the trailing '\n' left in place
StripNewline_keep(text) == text

\* final_text: the buffer without its last '\n'
StripNewline(text) ==
    IF Len(text) > 0 /\ text[Len(text)] = "\n"
    THEN SubSeq(text, 1, Len(text) - 1)
    ELSE text

\* copy_selection_to_clipboard: the clipboard and selection_rect it leaves
copy_selection_to_clipboard(sel) ==
    IF doc = NULL \/ sel.x0 >= sel.x1 \/ sel.y0 >= sel.y1
    THEN [clipboard |-> clipboard, rect |-> sel]
    ELSE IF LoadPageThrows(doc, current_page)
    THEN [clipboard |-> clipboard, rect |-> EmptyRect]
    ELSE LET text_buffer == AppendBlocks(PageText(doc, current_page), sel, <<>>)
         IN [clipboard |-> IF Len(text_buffer) > 0
                           THEN <<StripNewline(text_buffer)>>
                           ELSE clipboard,
             rect |-> EmptyRect]

\* the rectangle spanned by the drag's two end points
Normalized(a, b) ==
    Rect(Min(a.x, b.x), Min(a.y, b.y), Max(a.x, b.x), Max(a.y, b.y))

on_drag_begin(x, y) ==
    /\ ~gesture.active
    /\ gesture' = [active |-> TRUE, x |-> 0, y |-> 0]
    /\ op' = "on_drag_begin"
    /\ IF doc = NULL
       THEN UNCHANGED sel_vars
       ELSE /\ selecting' = 1
            /\ initial_drag_x' = x
            /\ initial_drag_y' = y
            /\ selection_start_pt' = screen_to_pdf(x, y)
            /\ selection_end_pt' = screen_to_pdf(x, y)
            /\ selection_rect' = EmptyRect
    /\ UNCHANGED <<nav_vars, ui_vars, files, clipboard, pure_vars>>

on_drag_update(offset_x, offset_y) ==
    /\ gesture.active
    /\ gesture' = [active |-> TRUE, x |-> offset_x, y |-> offset_y]
    /\ op' = "on_drag_update"
    /\ IF selecting = 0 \/ doc = NULL
       THEN UNCHANGED sel_vars
       ELSE LET end == screen_to_pdf(initial_drag_x + offset_x,
                                     initial_drag_y + offset_y)
            IN /\ selection_end_pt' = end
               /\ selection_rect' = Normalized(selection_start_pt, end)
               /\ UNCHANGED <<selecting, initial_drag_x, initial_drag_y,
                              selection_start_pt>>
    /\ UNCHANGED <<nav_vars, ui_vars, files, clipboard, pure_vars>>

\* on_drag_end; (offset_x, offset_y) is what gtk_gesture_drag_get_offset
\* returns
on_drag_end(offset_x, offset_y) ==
    /\ gesture.active
    /\ gesture' = [active |-> FALSE, x |-> offset_x, y |-> offset_y]
    /\ op' = "on_drag_end"
    /\ IF selecting = 0
       THEN UNCHANGED <<sel_vars, clipboard>>
       ELSE LET end == screen_to_pdf(initial_drag_x + offset_x,
                                     initial_drag_y + offset_y)
                sel == Normalized(selection_start_pt, end)
                width == sel.x1 - sel.x0
                height == sel.y1 - sel.y0
                copied == copy_selection_to_clipboard(sel)
            IN /\ selecting' = 0
               /\ selection_end_pt' = end
               /\ IF width > F(1) \/ height > F(1)
                  THEN /\ clipboard' = copied.clipboard
                       /\ selection_rect' = copied.rect
                  ELSE /\ clipboard' = clipboard
                       /\ selection_rect' = EmptyRect
               /\ UNCHANGED <<initial_drag_x, initial_drag_y,
                              selection_start_pt>>
    /\ UNCHANGED <<nav_vars, ui_vars, files, pure_vars>>

\* draw_cb(w, h): whether the page is painted, and the selection highlight
\* (in widget coordinates) when one is painted
draw_cb(w, h) ==
    LET ox == CentreOffset(w, page_w)
        oy == CentreOffset(h, page_h)
        r == selection_rect
    IN IF page_surface = NoSurface
       THEN [page |-> FALSE, highlight |-> FALSE, rect |-> EmptyRect]
       ELSE IF doc # NULL /\ (r.x1 > r.x0 \/ r.y1 > r.y0)
       THEN [page |-> TRUE, highlight |-> TRUE,
             rect |-> Rect(FMul(r.x0, zoom_factor) + ox,
                           FMul(r.y0, zoom_factor) + oy,
                           FMul(r.x1, zoom_factor) + ox,
                           FMul(r.y1, zoom_factor) + oy)]
       ELSE [page |-> TRUE, highlight |-> FALSE, rect |-> EmptyRect]

Open == \E path \in Paths : open_pdf(path)

Next ==
    \/ Open
    \/ on_prev
    \/ on_next
    \/ on_zoom_in
    \/ on_zoom_out
    \/ on_toggle_bookmark
    \/ on_go_to_bookmark

Spec == Init /\ [][Next]_vars


(* --------------------- the viewer with the mouse ---------------------- *)
\* where the pointer is pressed and how far it is dragged, in pixels
DragXs == {F(0), F(1), F(ViewW)}
DragYs == {F(0), F(ViewH)}
DragOffsetXs == {-F(ViewW), F(0), F(1), F(ViewW)}
DragOffsetYs == {-F(ViewH), F(0), F(ViewH)}

BeginDrag == \E x \in DragXs, y \in DragYs : on_drag_begin(x, y)
UpdateDrag ==
    \E x \in DragOffsetXs, y \in DragOffsetYs : on_drag_update(x, y)
EndDrag == \E x \in DragOffsetXs, y \in DragOffsetYs : on_drag_end(x, y)
\* a file that is no document is chosen in the dialog
OpenBroken == open_pdf("x.pdf")

RECURSIVE ZoomInTimes(_, _)
ZoomInTimes(z, k) == IF k = 0 THEN z ELSE ZoomInTimes(ZoomIn(z), k - 1)
RECURSIVE ZoomOutTimes(_, _)
ZoomOutTimes(z, k) == IF k = 0 THEN z ELSE ZoomOutTimes(ZoomOut(z), k - 1)

\* zoom factors a few presses of ZOOM + or ZOOM - away from 1.0
ZoomLevels ==
    {ZoomInTimes(ZoomOne, k) : k \in {0, 1, 8, 9}}
        \cup {ZoomOutTimes(ZoomOne, k) : k \in {1, 13}}

\* the viewer after open_pdf("a.pdf") (no sidecar), presses of NEXT up to
\* page n and presses of ZOOM + or ZOOM - up to a zoom factor z
Viewing(z, n) ==
    LET r == render_current_page("a.pdf", n, z, 0, 0) IN
    /\ call = NoCall /\ ret = NoRet
    /\ gesture = NoGesture
    /\ doc = "a.pdf" /\ current_path = "a.pdf"
    /\ page_count = PageCount("a.pdf") /\ current_page = n
    /\ zoom_factor = z /\ bookmark_page = -1
    /\ page_surface = r.surface /\ page_w = r.w /\ page_h = r.h
    /\ selecting = 0 /\ initial_drag_x = 0 /\ initial_drag_y = 0
    /\ selection_start_pt = Point(0, 0) /\ selection_end_pt = Point(0, 0)
    /\ selection_rect = EmptyRect
    /\ page_label = StatusLabel("a.pdf", n, PageCount("a.pdf"), z, -1)
    /\ bookmark_btn = "MARK (B)"
    /\ vadj = 0 /\ hadj = 0
    /\ files = [p \in SidecarPaths |-> NoFile]
    /\ clipboard = <<>>
    /\ op = IF z > ZoomOne THEN "on_zoom_in"
            ELSE IF z < ZoomOne THEN "on_zoom_out"
            ELSE IF n > 0 THEN "on_next" ELSE "open_pdf"

InitSel ==
    \/ call = NoCall /\ ret = NoRet /\ Started(NoFile)
    \/ \E z \in ZoomLevels, n \in 0..(MaxPages - 1) : Viewing(z, n)

NextSel ==
    \/ BeginDrag
    \/ UpdateDrag
    \/ EndDrag
    \/ OpenBroken

SpecSel == InitSel /\ [][NextSel]_vars

(* ------------------ rect_intersects_selection alone ------------------- *)
\* the coordinates of the rectangles tried
MaxCoord == 2
Coords == 0..MaxCoord
Rects == {Rect(x0, y0, x1, y1) : x0 \in Coords, y0 \in Coords,
                                 x1 \in Coords, y1 \in Coords}

InitRect ==
    /\ Started(NoFile)
    /\ ret = NoRet
    /\ \E r1 \in Rects, r2 \in Rects :
          call = [fn |-> "rect_intersects_selection", r1 |-> r1, r2 |-> r2]

CallRectIntersects ==
    /\ call.fn = "rect_intersects_selection" /\ ret = NoRet
    /\ ret' = [fn |-> "rect_intersects_selection",
               value |-> rect_intersects_selection(call.r1, call.r2)]
    /\ UNCHANGED <<gui_vars, call>>

NextRect == CallRectIntersects

SpecRect == InitRect /\ [][NextRect]_vars

(* ------------- render_current_page's pixel conversion alone ----------- *)
\* the largest pixmap converted, and the most padding bytes after a row
MaxPixW == 3
MaxPixH == 3
MaxPad == 2
\* the sample patterns tried
MaxSeed == 3

\* the samples of a pixmap fz_new_pixmap_from_page returns: 3 bytes a pixel,
\* stride bytes a row
Pixmap(w, h, stride, seed) ==
    [w |-> w, h |-> h, stride |-> stride,
     samples |-> [i \in 0..(stride * h - 1) |-> (61 * seed + 7 * i) % 256]]

\* buf with byte v stored at offset off
Store(buf, off, v) ==
    [o \in (DOMAIN buf) \cup {off} |-> IF o = off THEN v ELSE buf[o]]

\* the loops of render_current_page copying the channels in the order read
RECURSIVE PixelLoop_rgb(_, _, _, _)
PixelLoop_rgb(pix, x, y, dst) ==
    LET in_stride == pix.stride
        out_stride == pix.w * 4
        src == y * in_stride
        row == y * out_stride
    IN IF y >= pix.h THEN dst
       ELSE IF x >= pix.w THEN PixelLoop_rgb(pix, 0, y + 1, dst)
       ELSE PixelLoop_rgb(pix, x + 1, y,
              Store(Store(Store(Store(dst,
                  row + 4 * x + 0, pix.samples[src + 3 * x + 0]),
                  row + 4 * x + 1, pix.samples[src + 3 * x + 1]),
                  row + 4 * x + 2, pix.samples[src + 3 * x + 2]),
                  row + 4 * x + 3, 255))

\* the loops of render_current_page over y and x: the bytes of page_pixels
\* written, by offset
RECURSIVE PixelLoop(_, _, _, _)
PixelLoop(pix, x, y, dst) ==
    LET in_stride == pix.stride
        out_stride == pix.w * 4
        src == y * in_stride
        row == y * out_stride
    IN IF y >= pix.h THEN dst
       ELSE IF x >= pix.w THEN PixelLoop(pix, 0, y + 1, dst)
       ELSE PixelLoop(pix, x + 1, y,
              Store(Store(Store(Store(dst,
                  row + 4 * x + 0, pix.samples[src + 3 * x + 2]),
                  row + 4 * x + 1, pix.samples[src + 3 * x + 1]),
                  row + 4 * x + 2, pix.samples[src + 3 * x + 0]),
                  row + 4 * x + 3, 255))

InitPix ==
    /\ Started(NoFile)
    /\ ret = NoRet
    /\ \E w \in 0..MaxPixW, h \in 0..MaxPixH, pad \in 0..MaxPad,
          seed \in 0..MaxSeed :
          call = [fn |-> "render_current_page",
                  pix |-> Pixmap(w, h, 3 * w + pad, seed)]

CallConvert ==
    /\ call.fn = "render_current_page" /\ ret = NoRet
    /\ ret' = [fn |-> "render_current_page",
               page_w |-> call.pix.w, page_h |-> call.pix.h,
               size |-> (call.pix.w * 4) * call.pix.h,
               page_pixels |-> PixelLoop(call.pix, 0, 0, [o \in {} |-> 0])]
    /\ UNCHANGED <<gui_vars, call>>

NextPix == CallConvert

SpecPix == InitPix /\ [][NextPix]_vars

(* ---------------------- opening with a sidecar ----------------------- *)
\* the sidecars of a.pdf found on disk: missing, empty, unparsable, in and
\* out of range, and numbers an int cannot hold
OpenSidecars ==
    InitialSidecars \cup
    {File(<<>>), File(<<"x">>), File(<<"-">>), File(<<" ", "3", "\n">>),
     File(<<"+", "1">>), File(<<"0">>), File(<<"-", "1">>),
     File(<<"2", "x">>), File(<<"0", "2">>),
     File(FormatInt(MaxPages + 1)),
     File(<<"4", "2", "9", "4", "9", "6", "7", "2", "9", "8">>),
     File(<<"-", "2", "1", "4", "7", "4", "8", "3", "6", "4", "8">>)}

InitOpen ==
    /\ call = NoCall /\ ret = NoRet
    /\ \E f \in OpenSidecars : Started(f)

NextOpen ==
    \/ Open
    \/ on_prev
    \/ on_next
    \/ on_go_to_bookmark

SpecOpen == InitOpen /\ [][NextOpen]_vars

(* ------------------------------ scrolling ----------------------------- *)
\* the fraction 0.15 of a page a key press pans by
PanStep == (15 * Scale) \div 100

\* scroll_view's new value of an adjustment: val moved by dir steps and
\* kept within [0, upper - page_size]
Panned(val, dir, page_size, upper) ==
    LET step == FMul(F(page_size), PanStep)
        new_val == val + dir * step
        low == IF new_val < 0 THEN 0 ELSE new_val
    IN IF low > F(upper) - F(page_size) THEN F(upper) - F(page_size) ELSE low

\* scroll_view(x_dir, y_dir); the adjustments' upper bounds are the size of
\* the drawing area
scroll_view(x_dir, y_dir) ==
    /\ vadj' = IF y_dir # 0 THEN Panned(vadj, y_dir, ViewH, DrawingH)
               ELSE vadj
    /\ hadj' = IF x_dir # 0 THEN Panned(hadj, x_dir, ViewW, DrawingW)
               ELSE hadj
    /\ op' = "scroll_view"
    /\ UNCHANGED <<nav_vars, sel_vars, page_label, bookmark_btn, env_vars,
                   pure_vars>>

\* how many steps away from the top-left corner the view is panned
MaxPans == 1

\* the W, A, S, D, Up and Down keys
PanKeys == {<<0, -1>>, <<0, 1>>, <<-1, 0>>, <<1, 0>>}
Pan ==
    \E k \in PanKeys :
        /\ scroll_view(k[1], k[2])
        /\ vadj' <= MaxPans * FMul(F(ViewH), PanStep)
        /\ hadj' <= MaxPans * FMul(F(ViewW), PanStep)

\* the scrolled window allocating the drawing area anew after update_ui set
\* its content size: GtkAdjustment keeps its value within
\* [0, upper - page_size]
Layout ==
    /\ vadj > F(DrawingH) - F(ViewH) \/ hadj > F(DrawingW) - F(ViewW)
    /\ vadj' = Min(vadj, F(DrawingH) - F(ViewH))
    /\ hadj' = Min(hadj, F(DrawingW) - F(ViewW))
    /\ op' = "layout"
    /\ UNCHANGED <<nav_vars, sel_vars, page_label, bookmark_btn, env_vars,
                   pure_vars>>

OpenDocument == open_pdf("a.pdf")

InitScroll == call = NoCall /\ ret = NoRet /\ Started(NoFile)

NextScroll ==
    \/ OpenDocument
    \/ on_prev
    \/ on_next
    \/ on_zoom_in
    \/ on_zoom_out
    \/ on_toggle_bookmark
    \/ on_go_to_bookmark
    \/ Pan
    \/ Layout

SpecScroll == InitScroll /\ [][NextScroll]_vars

(* ----------------------- with no document loaded -------------------- *)
\* the viewer after a.pdf (no sidecar) was open on page n at zoom 1.0 and
\* the file chosen next was no document; pressed: the mouse button went
\* down at (1, 0) before the dialog was answered and is still down
Dropped(n, pressed) ==
    LET w == Max(ViewW, PageW)
        h == Max(ViewH, PageH)
        pt == Point(FDiv(Max(0, Min(F(PageW), F(1) - CentreOffset(w, PageW))),
                         ZoomOne),
                    FDiv(Max(0, Min(F(PageH), F(0) - CentreOffset(h, PageH))),
                         ZoomOne))
    IN
    /\ call = NoCall /\ ret = NoRet
    /\ gesture = [active |-> pressed, x |-> 0, y |-> 0]
    /\ doc = NULL /\ current_path = "x.pdf"
    /\ page_count = 0 /\ current_page = n
    /\ zoom_factor = ZoomOne /\ bookmark_page = -1
    /\ page_surface = NoSurface /\ page_w = 0 /\ page_h = 0
    /\ selecting = IF pressed THEN 1 ELSE 0
    /\ initial_drag_x = IF pressed THEN F(1) ELSE 0
    /\ initial_drag_y = 0
    /\ selection_start_pt = IF pressed THEN pt ELSE Point(0, 0)
    /\ selection_end_pt = IF pressed THEN pt ELSE Point(0, 0)
    /\ selection_rect = EmptyRect
    /\ page_label = NoDataLabel /\ bookmark_btn = "MARK (B)"
    /\ vadj = 0 /\ hadj = 0
    /\ files = [p \in SidecarPaths |-> NoFile]
    /\ clipboard = <<>>
    /\ op = "open_pdf"

InitIdle ==
    \/ call = NoCall /\ ret = NoRet /\ Started(NoFile)
    \/ \E n \in 0..(MaxPages - 1), pressed \in BOOLEAN : Dropped(n, pressed)

NextIdle ==
    \/ on_prev
    \/ on_next
    \/ on_zoom_in
    \/ on_zoom_out
    \/ on_toggle_bookmark
    \/ on_go_to_bookmark
    \/ BeginDrag
    \/ UpdateDrag
    \/ EndDrag
    \/ OpenBroken

SpecIdle == InitIdle /\ [][NextIdle]_vars

(* ============================ the claims ============================== *)
Sidecar == files[bookmark_path(current_path)]
Loaded == doc # NULL

RECURSIVE DropDigits(_)
DropDigits(s) ==
    IF s # <<>> /\ IsDigit(Head(s)) THEN DropDigits(Tail(s)) ELSE s

\* how many integers a file holds
RECURSIVE CountNumbers(_)
CountNumbers(s) ==
    LET t == SkipSpace(s) IN
    IF t = <<>> THEN 0
    ELSE IF ScanInt(t, "truncate").n = 1
         THEN 1 + CountNumbers(DropDigits(
                      IF Head(t) \in {"-", "+"} THEN Tail(t) ELSE t))
         ELSE CountNumbers(Tail(t))

(* C1: with a document of N >= 1 pages open on page p, once toggle-bookmark
   has set the bookmark on p (the sidecar being writable) and the same path
   is opened again with the same page count, current_page = p and
   bookmark_page = p; the sidecar holds p + 1 and load_bookmark reads it
   back as p. *)
C1_BookmarkRoundTrip ==
    [][(/\ op = "on_toggle_bookmark" /\ Loaded
        /\ page_count >= 1 /\ 0 <= current_page /\ current_page < page_count
        /\ bookmark_page = current_page
        /\ SidecarWritable(bookmark_path(current_path))
        /\ op' = "open_pdf" /\ current_path' = current_path
        /\ doc' # NULL /\ page_count' = page_count)
       => (/\ current_page' = current_page
           /\ bookmark_page' = current_page
           /\ Sidecar = File(FormatInt(current_page + 1) \o <<"\n">>)
           /\ \A conv \in Conversions :
                /\ ScanInt(Sidecar.data, conv) = [n |-> 1, p |-> current_page + 1]
                /\ load_bookmark(current_path, conv) = current_page)]_vars

\* a.pdf reopened on its last page, which only a saved bookmark leads to
C1_Witness ==
    /\ op = "open_pdf" /\ doc = "a.pdf"
    /\ current_page = MaxPages - 1 /\ bookmark_page = MaxPages - 1
    /\ Sidecar = File(FormatInt(MaxPages) \o <<"\n">>)

(* C2 as stated: after every save_bookmark a toggle performs (the sidecar
   being writable), the sidecar of the opened document contains exactly one
   page number, also when the toggle removed the bookmark. *)
C2_Original ==
    (op = "on_toggle_bookmark" /\ Loaded
     /\ SidecarWritable(bookmark_path(current_path)))
        => (Sidecar.exists /\ CountNumbers(Sidecar.data) = 1)

(* C2 amended: after a save_bookmark whose fopen succeeded, the sidecar holds
   exactly one page number, bookmark_page + 1 and a newline, when the toggle
   set the bookmark, and is empty when the toggle removed it. *)
C2_SidecarContent ==
    (op = "on_toggle_bookmark" /\ Loaded
     /\ SidecarWritable(bookmark_path(current_path)))
        => /\ Sidecar.exists
           /\ CountNumbers(Sidecar.data) = IF bookmark_page >= 0 THEN 1 ELSE 0
           /\ bookmark_page >= 0
                 => Sidecar.data = FormatInt(bookmark_page + 1) \o <<"\n">>
           /\ bookmark_page < 0 => Sidecar.data = <<>>

\* a toggle has removed the bookmark of a.pdf and left its sidecar empty
C2_Witness ==
    /\ op = "on_toggle_bookmark" /\ doc = "a.pdf" /\ bookmark_page = -1
    /\ Sidecar = File(<<>>)

(* C3 as stated: whenever a document is loaded, 0 <= current_page <
   page_count, and bookmark_page is -1 or in the same range. *)
C3_PageRange ==
    Loaded => /\ 0 <= current_page /\ current_page < page_count
              /\ bookmark_page # -1
                    => (0 <= bookmark_page /\ bookmark_page < page_count)

(* C8 as stated: 0.1 <= zoom_factor <= 5.0; zoom-in sets it to
   min(5.0, zoom_factor * 1.2), zoom-out to max(0.1, zoom_factor / 1.2),
   and every open_pdf resets it to 1.0. *)
C8_Original ==
    [][/\ ZoomMin <= zoom_factor' /\ zoom_factor' <= ZoomMax
       /\ op' = "on_zoom_in"
             => zoom_factor' = Min(ZoomMax, FMul(zoom_factor, ZoomStep))
       /\ op' = "on_zoom_out"
             => zoom_factor' = Max(ZoomMin, FDiv(zoom_factor, ZoomStep))
       /\ op' = "open_pdf" => zoom_factor' = ZoomOne]_vars

(* C8 amended: 0.1 <= zoom_factor <= 5.0; with a document loaded zoom-in
   sets it to min(5.0, zoom_factor * 1.2) and zoom-out to
   max(0.1, zoom_factor / 1.2), with no document loaded they leave it
   unchanged, and every open_pdf resets it to 1.0. *)
C8_ZoomBounds ==
    [][/\ ZoomMin <= zoom_factor' /\ zoom_factor' <= ZoomMax
       /\ (op' = "on_zoom_in" /\ Loaded)
             => zoom_factor' = Min(ZoomMax, FMul(zoom_factor, ZoomStep))
       /\ (op' = "on_zoom_out" /\ Loaded)
             => zoom_factor' = Max(ZoomMin, FDiv(zoom_factor, ZoomStep))
       /\ (op' \in {"on_zoom_in", "on_zoom_out"} /\ ~Loaded)
             => zoom_factor' = zoom_factor
       /\ op' = "open_pdf" => zoom_factor' = ZoomOne]_vars

\* a zoom-in has hit the upper clamp
C8_Witness ==
    op = "on_zoom_in" /\ Loaded /\ zoom_factor = ZoomMax

(* C9 as stated: every page number written goes to the sidecar of the
   document that is loaded, equals current_page + 1 at the time of the
   toggle and lies in [1, page_count]; nothing is written while no document
   is loaded. *)
C9_WriteSafety ==
    [][files' # files
       => /\ Loaded /\ op' = "on_toggle_bookmark" /\ current_path = doc
          /\ \A q \in SidecarPaths :
                 q # bookmark_path(doc) => files'[q] = files[q]
          /\ LET new == files'[bookmark_path(doc)] IN
             /\ new.exists
             /\ new.data # <<>>
                   => /\ new.data = FormatInt(current_page + 1) \o <<"\n">>
                      /\ 1 <= current_page + 1
                      /\ current_page + 1 <= page_count]_vars

(* C10: with a document loaded, a toggle on the bookmarked page clears the
   bookmark and a toggle elsewhere sets bookmark_page = current_page;
   current_page and zoom_factor are unchanged. Whenever a document is loaded,
   bookmark_page >= 0 and the sidecar can be opened for writing, the sidecar
   contains bookmark_page + 1. *)
C10_SidecarHolds ==
    (Loaded /\ bookmark_page >= 0
     /\ SidecarWritable(bookmark_path(current_path)))
        => /\ Sidecar.exists
           /\ \A conv \in Conversions :
                ScanInt(Sidecar.data, conv) = [n |-> 1, p |-> bookmark_page + 1]

C10_Toggle ==
    [][/\ (op' = "on_toggle_bookmark" /\ Loaded)
             => /\ bookmark_page = current_page => bookmark_page' = -1
                /\ bookmark_page # current_page
                      => bookmark_page' = current_page
                /\ current_page' = current_page
                /\ zoom_factor' = zoom_factor
       /\ C10_SidecarHolds']_vars

\* a toggle has moved the bookmark of a.pdf from one page to another at a
\* zoom other than 1.0
C10_Witness ==
    /\ op = "on_toggle_bookmark" /\ doc = "a.pdf"
    /\ bookmark_page = current_page /\ current_page = MaxPages - 1
    /\ zoom_factor # ZoomOne
    /\ Sidecar = File(FormatInt(MaxPages) \o <<"\n">>)

(* --------------------------- C4: drag copies -------------------------- *)
StrictOverlap(r1, r2) ==
    r1.x0 < r2.x1 /\ r2.x0 < r1.x1 /\ r1.y0 < r2.y1 /\ r2.y0 < r1.y1

\* the text lines of a page, in document order
RECURSIVE LinesOf(_)
LinesOf(blocks) ==
    IF blocks = <<>> THEN <<>>
    ELSE (IF Head(blocks).type = "text" THEN Head(blocks).lines ELSE <<>>)
         \o LinesOf(Tail(blocks))

\* whole lines joined by '\n', no trailing newline
RECURSIVE Joined(_)
Joined(lines) ==
    IF Len(lines) = 1 THEN Head(lines).chars
    ELSE Head(lines).chars \o <<"\n">> \o Joined(Tail(lines))

LinesHit(sel) ==
    SelectSeq(LinesOf(PageText(doc, current_page)),
              LAMBDA line : StrictOverlap(line.bbox, sel))

\* C4: when a drag ends on a loaded document and the normalized selection
\* rectangle has positive width and height and is more than 1.0 document
\* unit in at least one dimension, the clipboard becomes the characters of
\* every text line of the current page whose bounding box intersects the
\* rectangle, in document order, joined by '\n' with no trailing newline;
\* in every other case the clipboard is left unchanged.
C4_DragCopies ==
    [][op' = "on_drag_end" =>
         LET sel == Normalized(selection_start_pt, selection_end_pt')
             width == sel.x1 - sel.x0
             height == sel.y1 - sel.y0
         IN IF /\ selecting = 1 /\ Loaded
               /\ width > 0 /\ height > 0
               /\ (width > F(1) \/ height > F(1))
               /\ LinesHit(sel) # <<>>
            THEN clipboard' = <<Joined(LinesHit(sel))>>
            ELSE clipboard' = clipboard]_vars

\* a drag over the whole first page has ended and three lines were copied
C4_Witness ==
    /\ op = "on_drag_end" /\ Loaded /\ current_page = 0
    /\ clipboard = <<(<<"a", "b", "\n", "c", "\n", "d", "e">>)>>

(* ------------------- C5: rect_intersects_selection -------------------- *)
\* C5: rect_intersects_selection(r1, r2) is 1 exactly when the rectangles
\* overlap strictly on both axes and 0 otherwise (rectangles that only touch
\* do not intersect), and the result is the same with the arguments swapped.
C5_StrictOverlap ==
    ret.fn = "rect_intersects_selection" =>
        /\ ret.value = (IF StrictOverlap(call.r1, call.r2) THEN 1 ELSE 0)
        /\ ret.value = rect_intersects_selection(call.r2, call.r1)

\* two proper rectangles sharing only an edge were compared
C5_Witness ==
    /\ ret.fn = "rect_intersects_selection" /\ ret.value = 0
    /\ call.r1.x0 < call.r1.x1 /\ call.r1.y0 < call.r1.y1
    /\ call.r2.x0 < call.r2.x1 /\ call.r2.y0 < call.r2.y1
    /\ call.r1.x1 = call.r2.x0
    /\ call.r1.y0 < call.r2.y1 /\ call.r2.y0 < call.r1.y1

(* --------------------------- C6: screen_to_pdf ------------------------ *)
Clamp(v, lo, hi) == IF v < lo THEN lo ELSE IF v > hi THEN hi ELSE v

\* half the excess of the widget size over the page size, 0 when the page
\* is larger
HalfExcess(widget, page) ==
    IF page >= widget THEN 0 ELSE (F(widget) - F(page)) \div 2

\* the document point the claim gives for a widget point
Mapped(sx, sy) ==
    IF ~Loaded THEN Point(0, 0)
    ELSE Point(FDiv(Clamp(sx - HalfExcess(DrawingW, page_w), 0, F(page_w)),
                    zoom_factor),
               FDiv(Clamp(sy - HalfExcess(DrawingH, page_h), 0, F(page_h)),
                    zoom_factor))

InRange(pt) ==
    /\ 0 <= pt.x /\ pt.x <= FDiv(F(page_w), zoom_factor)
    /\ 0 <= pt.y /\ pt.y <= FDiv(F(page_h), zoom_factor)

\* the widget points where the drag began and where the pointer is
PressX == initial_drag_x
PressY == initial_drag_y
PointerX == initial_drag_x + gesture.x
PointerY == initial_drag_y + gesture.y

InsidePage(sx, sy) ==
    /\ HalfExcess(DrawingW, page_w) <= sx
    /\ sx <= HalfExcess(DrawingW, page_w) + F(page_w)
    /\ HalfExcess(DrawingH, page_h) <= sy
    /\ sy <= HalfExcess(DrawingH, page_h) + F(page_h)

\* a drag is under way with both its points inside the drawn page and
\* draw_cb paints the highlight
Highlighting ==
    /\ op = "on_drag_update" /\ selecting = 1 /\ Loaded
    /\ InsidePage(PressX, PressY) /\ InsidePage(PointerX, PointerY)
    /\ draw_cb(DrawingW, DrawingH).highlight

\* the highlight draw_cb paints, and the rectangle the pointer spanned
Painted == draw_cb(DrawingW, DrawingH).rect
Spanned == Normalized(Point(PressX, PressY), Point(PointerX, PointerY))

Abs(v) == IF v < 0 THEN -v ELSE v
\* equal up to one rounding of the division and one of the multiplication
Near(a, b) == 2 * Scale * Abs(a - b) <= zoom_factor + Scale

\* what screen_to_pdf returned in the step just taken
MapsAsStated ==
    /\ (op = "on_drag_begin" /\ Loaded) =>
          /\ selection_start_pt = Mapped(PressX, PressY)
          /\ InRange(selection_start_pt)
    /\ (op = "on_drag_update" /\ selecting = 1 /\ Loaded) =>
          /\ selection_end_pt = Mapped(PointerX, PointerY)
          /\ InRange(selection_end_pt)

EndMapsAsStated ==
    (op' = "on_drag_end" /\ selecting = 1) =>
        /\ selection_end_pt' = (Mapped(PointerX, PointerY))'
        /\ Loaded' => (InRange(selection_end_pt))'
        /\ ~Loaded' => selection_end_pt' = Point(0, 0)

C7_PixelConversion ==
    ret.fn = "render_current_page" =>
        LET in == call.pix.samples
            in_stride == call.pix.stride
            out == ret.page_pixels
        IN /\ in_stride >= 3 * ret.page_w
           /\ \A x \in 0..(ret.page_w - 1), y \in 0..(ret.page_h - 1) :
                LET o == y * (4 * ret.page_w) + 4 * x
                    i == y * in_stride + 3 * x
                IN /\ {o, o + 1, o + 2, o + 3} \subseteq DOMAIN out
                   /\ out[o] = in[i + 2]
                   /\ out[o + 1] = in[i + 1]
                   /\ out[o + 2] = in[i]
                   /\ out[o + 3] = 255
           /\ DOMAIN out \subseteq 0..(ret.page_w * ret.page_h * 4 - 1)
           /\ ret.size = ret.page_w * ret.page_h * 4

\* a pixmap of several rows with padding after each row was converted
C7_Witness ==
    /\ ret.fn = "render_current_page"
    /\ ret.page_w >= 2 /\ ret.page_h >= 2
    /\ call.pix.stride > 3 * ret.page_w
    /\ call.pix.samples[0] # call.pix.samples[2]

(* ----------------------- C11: opening with a sidecar ------------------ *)
RECURSIVE TakeDigits(_)
TakeDigits(s) ==
    IF s # <<>> /\ IsDigit(Head(s)) THEN <<Head(s)>> \o TakeDigits(Tail(s))
    ELSE <<>>

RECURSIVE DropZeros(_)
DropZeros(s) ==
    IF Len(s) > 1 /\ Head(s) = "0" THEN DropZeros(Tail(s)) ELSE s

\* the file's first integer is k, for k >= 1: the decimal numeral of k
\* after white space and an optional '+', leading zeros aside
FirstIntegerIs(f, k) ==
    /\ f.exists
    /\ LET t == SkipSpace(f.data)
           u == IF t # <<>> /\ Head(t) = "+" THEN Tail(t) ELSE t
       IN DropZeros(TakeDigits(u)) = FormatNat(k)

\* C11: when a document opens and its sidecar's first integer v satisfies
\* 1 <= v <= page_count, it opens on page v-1 with bookmark_page = v-1; when
\* the sidecar is missing, empty, unparsable or v is outside
\* [1, page_count], it opens on page 0 with bookmark_page = -1; open_pdf
\* never modifies a sidecar.
C11_OpenWithSidecar ==
    [][(op' = "open_pdf" /\ doc' # NULL) =>
         LET f == files[bookmark_path(current_path')]
             vs == {k \in 1..page_count' : FirstIntegerIs(f, k)}
         IN /\ IF vs # {}
               THEN \E v \in vs : /\ current_page' = v - 1
                                  /\ bookmark_page' = v - 1
               ELSE current_page' = 0 /\ bookmark_page' = -1
            /\ files' = files]_vars

(* --------------------------- C12: failed open ------------------------- *)
\* C12: when opening the document or counting its pages fails, open_pdf
\* leaves the no-document state: doc = NULL (the previous document closed),
\* page_count = 0, no page surface, page_w = page_h = 0, zoom_factor = 1.0,
\* an empty selection rectangle, the label 'NO DATA LOADED' and the button
\* 'MARK (B)', and no sidecar file is written.
C12_FailedOpen ==
    [][(/\ op' = "open_pdf"
        /\ OpenThrows(current_path') \/ CountThrows(current_path'))
       => /\ doc' = NULL /\ page_count' = 0
          /\ page_surface' = NoSurface /\ page_w' = 0 /\ page_h' = 0
          /\ zoom_factor' = ZoomOne
          /\ selection_rect' = EmptyRect
          /\ page_label'.text = "NO DATA LOADED"
          /\ bookmark_btn' = "MARK (B)"
          /\ files' = files]_vars

\* counting the pages failed after a zoomed, bookmarked document had been
\* open on a later page
C12_Witness ==
    /\ op = "open_pdf" /\ current_path = "y.pdf" /\ doc = NULL
    /\ page_surface = NoSurface /\ page_label.text = "NO DATA LOADED"
    /\ current_page > 0 /\ bookmark_page = current_page

(* ----------------------- C13: no-document frame ----------------------- *)
\* C13: while no document is loaded, prev, next, zoom-in, zoom-out,
\* toggle-bookmark, go-to-bookmark, drag-begin and drag-update leave
\* current_page, page_count, zoom_factor, bookmark_page, selecting, the
\* selection rectangle, the page surface and every sidecar file unchanged.
C13_NoDocumentFrame ==
    [][(/\ doc = NULL
        /\ op' \in {"on_prev", "on_next", "on_zoom_in", "on_zoom_out",
                    "on_toggle_bookmark", "on_go_to_bookmark",
                    "on_drag_begin", "on_drag_update"})
       => UNCHANGED <<current_page, page_count, zoom_factor, bookmark_page,
                      selecting, selection_rect, page_surface, files>>]_vars

\* the pointer moved, with the button held since before the document was
\* lost, and the page and the drag's flag are as they were
C13_Witness ==
    /\ doc = NULL /\ op = "on_drag_update"
    /\ gesture.active /\ gesture.x # 0
    /\ selecting = 1 /\ current_page > 0

(* ----------------------- C14: clamped navigation ---------------------- *)
\* C14: with a document loaded, next on the last page and prev on the first
\* page change nothing (current_page, selection rectangle, rendered surface
\* and scroll position unchanged, no re-render); otherwise next/prev change
\* current_page by exactly +1/-1, clear the selection rectangle and
\* re-render, leaving zoom_factor and bookmark_page unchanged.
C14_ClampedNavigation ==
    [][(Loaded /\ op' \in {"on_next", "on_prev"}) =>
         LET delta == IF op' = "on_next" THEN 1 ELSE -1
             atEnd == \/ delta = 1 /\ current_page = page_count - 1
                      \/ delta = -1 /\ current_page = 0
         IN IF atEnd
            THEN UNCHANGED <<current_page, selection_rect, page_surface,
                             vadj, hadj>>
            ELSE /\ current_page' = current_page + delta
                 /\ selection_rect' = EmptyRect
                 /\ page_surface' = <<doc, current_page + delta, zoom_factor>>
                 /\ UNCHANGED <<zoom_factor, bookmark_page>>]_vars

C16_SelectionTransient ==
    /\ selecting = 0 => selection_rect = EmptyRect
    /\ op = "on_drag_end" => ~draw_cb(DrawingW, DrawingH).highlight

====
